---- MODULE Spec2Model ----
(***************************************************************************)
(* Model of cozad-union-find: src/src/union_find/client.rs (Client).       *)
(* The store is a vector of Node records addressed by position (position 0 *)
(* is the placeholder "root" record), a name -> position map and a counter *)
(* of disjoint sets.                                                       *)
(***************************************************************************)
EXTENDS Integers, Sequences, FiniteSets, TLC

\* ------------------------------------------------------------------ bounds
\* Largest number of real entity records (positions >= 1) the model creates.
MaxNodes == 3
\* Longest list of connections handed to connect_nodes_bulk in one call.
MaxConnections == 2
\* Width of the model's usize (the counter wraps modulo 2^UsizeBits when the
\* build does not check arithmetic overflow).
UsizeBits == 3

\* Names the callers use.
Names == {"A", "B", "C"}

VARIABLES
    nodes,            \* Client.nodes : position -> Node
    node_map,         \* Client.node_map : name -> position
    set_count,        \* Client.set_count
    panicked,         \* a call has panicked (unwrap on None / overflow)
    wrapped,          \* history: the counter has wrapped around
    last_call,        \* history: the last call of the named interface
    edges,            \* history: name pairs passed to connect_nodes
    bulk_edges,       \* history: index pairs passed to connect_nodes_bulk
    inserted,         \* history: names passed to add_node / add_nodes_bulk
    ever_inserted,    \* history: every name ever passed to an insertion
    bulk_failed,      \* history: where the last connect_nodes_bulk failed
    track             \* history: which call disciplines have been kept

vars == <<nodes, node_map, set_count, panicked, wrapped,
          last_call, edges, bulk_edges, inserted, ever_inserted,
          bulk_failed, track>>

\* ------------------------------------------------------------- data model
UsizeModulus == 2 ^ UsizeBits

Node(uuid, parent_index, index, size) ==
    [uuid |-> uuid, parent_index |-> parent_index, index |-> index, size |-> size]

\* nodes.len()
len(ns) == Cardinality(DOMAIN ns)

\* nodes.push(node)
push(ns, node) ==
    [i \in 0..len(ns) |-> IF i < len(ns) THEN ns[i] ELSE node]

\* Client::new
new_nodes == [i \in {0} |-> Node("root", 0, 0, 0)]

new_node_map == [n \in {} |-> 0]

\* HashMap::insert
map_insert(m, k, v) ==
    [n \in (DOMAIN m) \cup {k} |-> IF n = k THEN v ELSE m[n]]

\* ---------------------------------------------------------------- queries
node_exists(m, uuid) == uuid \in DOMAIN m

node_index(m, uuid) == IF uuid \in DOMAIN m THEN m[uuid] ELSE 0

node_count(ns) == len(ns) - 1

\* The loop shared by find_root_index and find_root_index_bulk: follow
\* parent_index until a record whose parent_index equals its index field.
RECURSIVE walk(_, _)
walk(ns, i) ==
    IF ns[i].parent_index # ns[i].index
    THEN walk(ns, ns[i].parent_index)
    ELSE ns[i].parent_index

\* Variants of find_root_index with a plausible slip: the parent walk left
\* out, and the check for the placeholder position left out.
find_root_index_no_walk(ns, m, uuid) == node_index(m, uuid)

find_root_index_unguarded(ns, m, uuid) == walk(ns, node_index(m, uuid))

find_root_index(ns, m, uuid) ==
    IF node_index(m, uuid) > 0
    THEN walk(ns, node_index(m, uuid))
    ELSE 0

\* nodes.get(node_index).unwrap() panics when node_index is out of range.
Panic == -1

\* Variant of find_root_index_bulk with the parent walk left out.
find_root_index_bulk_no_walk(ns, i) ==
    IF i \in DOMAIN ns THEN i ELSE Panic

find_root_index_bulk(ns, i) ==
    IF i \in DOMAIN ns THEN walk(ns, i) ELSE Panic

\* Variant of nodes_connected without the test for the placeholder.
nodes_connected_unguarded(ns, m, uuid_a, uuid_b) ==
    find_root_index(ns, m, uuid_a) = find_root_index(ns, m, uuid_b)

nodes_connected(ns, m, uuid_a, uuid_b) ==
    /\ find_root_index(ns, m, uuid_a) > 0
    /\ find_root_index(ns, m, uuid_a) = find_root_index(ns, m, uuid_b)

disjoint_set_count(c) == c

\* ------------------------------------------------------- counter arithmetic
\* oc is the build's overflow-checks setting: an overflowing operation
\* panics when it is on and wraps modulo 2^UsizeBits when it is off.
\* self.set_count += 1
incr(c, oc) ==
    IF c + 1 >= UsizeModulus
    THEN [value |-> IF oc THEN c ELSE (c + 1) % UsizeModulus,
          panicked |-> oc, wrapped |-> ~ oc]
    ELSE [value |-> c + 1, panicked |-> FALSE, wrapped |-> FALSE]

\* self.set_count -= 1
decr(c, oc) ==
    IF c - 1 < 0
    THEN [value |-> IF oc THEN c ELSE (c - 1) % UsizeModulus,
          panicked |-> oc, wrapped |-> ~ oc]
    ELSE [value |-> c - 1, panicked |-> FALSE, wrapped |-> FALSE]

\* ------------------------------------------------------------------ union
\* Variant of merge with the comparison turned round: the larger set is
\* re-parented under the smaller.
merge_larger_under_smaller(ns, a_root, b_root) ==
    IF ns[a_root].size > ns[b_root].size
    THEN [ns EXCEPT ![a_root].parent_index = b_root,
                    ![b_root].size = ns[b_root].size + ns[a_root].size]
    ELSE [ns EXCEPT ![b_root].parent_index = a_root,
                    ![a_root].size = ns[a_root].size + ns[b_root].size]

\* Variant of merge that adds the sizes into the re-parented record.
merge_size_to_child(ns, a_root, b_root) ==
    IF ns[a_root].size < ns[b_root].size
    THEN [ns EXCEPT ![a_root].parent_index = b_root,
                    ![a_root].size = ns[b_root].size + ns[a_root].size]
    ELSE [ns EXCEPT ![b_root].parent_index = a_root,
                    ![b_root].size = ns[a_root].size + ns[b_root].size]

\* The size comparison and re-parenting of connect_nodes / connect_nodes_bulk.
merge(ns, a_root, b_root) ==
    IF ns[a_root].size < ns[b_root].size
    THEN [ns EXCEPT ![a_root].parent_index = b_root,
                    ![b_root].size = ns[b_root].size + ns[a_root].size]
    ELSE [ns EXCEPT ![b_root].parent_index = a_root,
                    ![a_root].size = ns[a_root].size + ns[b_root].size]

\* Variant of union without the early return on equal representatives.
union_no_return(st, a_root, b_root, oc) ==
    [st EXCEPT !.nodes     = merge(st.nodes, a_root, b_root),
               !.set_count = decr(st.set_count, oc).value,
               !.panicked  = decr(st.set_count, oc).panicked,
               !.wrapped   = st.wrapped \/ decr(st.set_count, oc).wrapped]

\* One union of two resolved representatives;
\* st = [nodes, node_map, set_count, panicked, wrapped].
union(st, a_root, b_root, oc) ==
    IF a_root = b_root
    THEN st
    ELSE [st EXCEPT !.nodes     = merge(st.nodes, a_root, b_root),
                    !.set_count = decr(st.set_count, oc).value,
                    !.panicked  = decr(st.set_count, oc).panicked,
                    !.wrapped   = st.wrapped \/ decr(st.set_count, oc).wrapped]

\* Variant of connect_nodes that merges the names' own records instead of
\* their representatives.
connect_nodes_no_find(st, uuid_a, uuid_b, oc) ==
    union(st, node_index(st.node_map, uuid_a),
              node_index(st.node_map, uuid_b), oc)

connect_nodes(st, uuid_a, uuid_b, oc) ==
    union(st, find_root_index(st.nodes, st.node_map, uuid_a),
              find_root_index(st.nodes, st.node_map, uuid_b), oc)

\* Variant of connect_nodes_bulk that merges the records at the given
\* positions instead of their representatives.
RECURSIVE connect_nodes_bulk_no_find(_, _, _, _)
connect_nodes_bulk_no_find(st, connections, k, oc) ==
    IF k > Len(connections) \/ st.panicked
    THEN st
    ELSE LET a_root == IF connections[k][1] + 1 \in DOMAIN st.nodes
                       THEN connections[k][1] + 1 ELSE Panic
             b_root == IF connections[k][2] + 1 \in DOMAIN st.nodes
                       THEN connections[k][2] + 1 ELSE Panic
         IN  IF a_root = Panic \/ b_root = Panic
             THEN [st EXCEPT !.panicked = TRUE]
             ELSE connect_nodes_bulk_no_find(union(st, a_root, b_root, oc),
                                             connections, k + 1, oc)

\* Variant of connect_nodes_bulk that does not shift the zero-based indexes
\* past the placeholder.
RECURSIVE connect_nodes_bulk_unshifted(_, _, _, _)
connect_nodes_bulk_unshifted(st, connections, k, oc) ==
    IF k > Len(connections) \/ st.panicked
    THEN st
    ELSE LET a_root == find_root_index_bulk(st.nodes, connections[k][1])
             b_root == find_root_index_bulk(st.nodes, connections[k][2])
         IN  IF a_root = Panic \/ b_root = Panic
             THEN [st EXCEPT !.panicked = TRUE]
             ELSE connect_nodes_bulk_unshifted(union(st, a_root, b_root, oc),
                                               connections, k + 1, oc)

\* Variant of connect_nodes_bulk that passes over a pair with a position
\* out of range and goes on with the next.
RECURSIVE connect_nodes_bulk_skip(_, _, _, _)
connect_nodes_bulk_skip(st, connections, k, oc) ==
    IF k > Len(connections) \/ st.panicked
    THEN st
    ELSE LET a_root == find_root_index_bulk(st.nodes, connections[k][1] + 1)
             b_root == find_root_index_bulk(st.nodes, connections[k][2] + 1)
         IN  IF a_root = Panic \/ b_root = Panic
             THEN connect_nodes_bulk_skip(st, connections, k + 1, oc)
             ELSE connect_nodes_bulk_skip(union(st, a_root, b_root, oc),
                                          connections, k + 1, oc)

\* The loop of connect_nodes_bulk from pair k on; a panic ends the call.
RECURSIVE connect_nodes_bulk(_, _, _, _)
connect_nodes_bulk(st, connections, k, oc) ==
    IF k > Len(connections) \/ st.panicked
    THEN st
    ELSE LET a_root == find_root_index_bulk(st.nodes, connections[k][1] + 1)
             b_root == find_root_index_bulk(st.nodes, connections[k][2] + 1)
         IN  IF a_root = Panic \/ b_root = Panic
             THEN [st EXCEPT !.panicked = TRUE]
             ELSE connect_nodes_bulk(union(st, a_root, b_root, oc),
                                     connections, k + 1, oc)

\* ----------------------------------------------------------------- insert
\* Variant of append that gives the new record the placeholder as parent.
append_parent_zero(st, uuid, oc) ==
    [nodes     |-> push(st.nodes, Node(uuid, 0, len(st.nodes), 1)),
     node_map  |-> map_insert(st.node_map, uuid, len(st.nodes)),
     set_count |-> incr(st.set_count, oc).value,
     panicked  |-> incr(st.set_count, oc).panicked,
     wrapped   |-> st.wrapped \/ incr(st.set_count, oc).wrapped]

\* The body shared by add_node (after its check) and the add_nodes_bulk loop.
append(st, uuid, oc) ==
    [nodes     |-> push(st.nodes, Node(uuid, len(st.nodes), len(st.nodes), 1)),
     node_map  |-> map_insert(st.node_map, uuid, len(st.nodes)),
     set_count |-> incr(st.set_count, oc).value,
     panicked  |-> incr(st.set_count, oc).panicked,
     wrapped   |-> st.wrapped \/ incr(st.set_count, oc).wrapped]

\* Variant of add_node without the check for an indexed name.
add_node_unchecked(st, uuid, oc) == append(st, uuid, oc)

add_node(st, uuid, oc) ==
    IF ~ node_exists(st.node_map, uuid) THEN append(st, uuid, oc) ELSE st

RECURSIVE add_nodes_bulk(_, _, _, _)
add_nodes_bulk(st, uuid_list, k, oc) ==
    IF k > Len(uuid_list) \/ st.panicked
    THEN st
    ELSE add_nodes_bulk(append(st, uuid_list[k], oc), uuid_list, k + 1, oc)

\* ------------------------------------------------------------ call inputs
RECURSIVE SeqsUpTo(_, _)
SeqsUpTo(S, n) ==
    IF n = 0 THEN {<<>>}
    ELSE SeqsUpTo(S, n - 1) \cup
         {Append(q, x) : q \in {r \in SeqsUpTo(S, n - 1) : Len(r) = n - 1}, x \in S}

Range(q) == {q[i] : i \in DOMAIN q}

Distinct(q) == Cardinality(Range(q)) = Len(q)

\* Lists of names for add_nodes_bulk.
NameLists == SeqsUpTo(Names, MaxNodes)

\* Zero-based indexes for connect_nodes_bulk; an index is out of range while
\* the store holds fewer records than MaxNodes.
Indexes == 0..(MaxNodes - 1)

\* BulkConnection { a, b } is the pair <<a, b>>.
ConnectionLists == SeqsUpTo(Indexes \X Indexes, MaxConnections)

\* ------------------------------------------------------------------ history
\* A call of the named interface: its name, and whether it took the path
\* that returns without touching the store (add_node on an indexed name,
\* connect_nodes on two names with the same representative).
Call(op, skipped) == [op |-> op, skipped |-> skipped]

NoCall == Call("none", FALSE)

\* track.named    : every call so far was add_node, or connect_nodes on two
\*                  names registered at the time of the call;
\* track.bulk     : the calls so far were add_nodes_bulk of distinct names
\*                  into the fresh store, then connect_nodes_bulk with every
\*                  index below node_count();
\* track.distinct : every call so far was an insertion, and the inserted
\*                  names are pairwise distinct.
\* edges and last_call (with track.named), bulk_edges (with track.bulk) and
\* inserted (with track.distinct) are recorded while the matching discipline
\* is kept and emptied when it is broken.
Track(named, bulk, distinct) ==
    [named |-> named, bulk |-> bulk, distinct |-> distinct]

History(t, call, e, be, ins) ==
    /\ track' = t
    /\ last_call' = IF t.named THEN call ELSE NoCall
    /\ edges' = IF t.named THEN e ELSE {}
    /\ bulk_edges' = IF t.bulk THEN be ELSE {}
    /\ inserted' = IF t.distinct THEN ins ELSE <<>>

\* Whether the last call was a connect_nodes_bulk call that panicked, and
\* the number of merges it had applied by then.
Failure(failed, merged) ==
    [failed |-> failed, merged |-> IF failed THEN merged ELSE 0]

NoFailure == Failure(FALSE, 0)

\* The number of decrements that take the counter from c to d.
CountDrop(c, d) == (c - d) % UsizeModulus

\* ------------------------------------------------------------------ actions
Init ==
    /\ nodes = new_nodes
    /\ node_map = new_node_map
    /\ set_count = 0
    /\ panicked = FALSE
    /\ wrapped = FALSE
    /\ last_call = NoCall
    /\ edges = {}
    /\ bulk_edges = {}
    /\ inserted = <<>>
    /\ ever_inserted = {}
    /\ bulk_failed = NoFailure
    /\ track = Track(TRUE, TRUE, TRUE)

State == [nodes |-> nodes, node_map |-> node_map, set_count |-> set_count,
          panicked |-> panicked, wrapped |-> wrapped]

\* The model follows a run up to its first panic or counter wrap-around.
Live == ~ panicked /\ ~ wrapped

\* The overflow-checks settings that can tell a call of at most n counter
\* updates apart: the counter cannot overflow within n steps of c otherwise.
Builds(c, n) ==
    IF c - n < 0 \/ c + n >= UsizeModulus THEN BOOLEAN ELSE {TRUE}

\* The most decrements one connect_nodes_bulk call can make: one for each
\* pair, and one for each self-parented real record but the last.
MaxMerges(connections) ==
    LET pairs == Len(connections)
        roots == Cardinality({i \in 1..node_count(nodes) :
                                 nodes[i].parent_index = nodes[i].index})
    IN  IF pairs < roots THEN pairs ELSE IF roots > 0 THEN roots - 1 ELSE 0

Result(st) ==
    /\ nodes' = st.nodes
    /\ node_map' = st.node_map
    /\ set_count' = st.set_count
    /\ panicked' = st.panicked
    /\ wrapped' = st.wrapped

AddNode(uuid) ==
    \E oc \in Builds(set_count, 1) :
      LET st == add_node(State, uuid, oc) IN
      /\ Live
      /\ node_count(st.nodes) <= MaxNodes
      /\ Result(st)
      /\ ever_inserted' = ever_inserted \cup {uuid}
      /\ bulk_failed' = NoFailure
      /\ History(Track(track.named, FALSE,
                       track.distinct /\ uuid \notin ever_inserted),
                 Call("add_node", node_exists(node_map, uuid)),
                 edges, {}, Append(inserted, uuid))

AddNodesBulk(uuid_list) ==
    \E oc \in Builds(set_count, Len(uuid_list)) :
      LET st == add_nodes_bulk(State, uuid_list, 1, oc) IN
      /\ Live
      /\ node_count(st.nodes) <= MaxNodes
      /\ Result(st)
      /\ ever_inserted' = ever_inserted \cup Range(uuid_list)
      /\ bulk_failed' = NoFailure
      /\ History(Track(FALSE,
                       track.bulk /\ len(nodes) = 1 /\ Distinct(uuid_list),
                       /\ track.distinct
                       /\ Distinct(uuid_list)
                       /\ Range(uuid_list) \cap ever_inserted = {}),
                 NoCall, {}, bulk_edges, inserted \o uuid_list)

ConnectNodes(uuid_a, uuid_b) ==
    \E oc \in Builds(set_count, 1) :
      LET st == connect_nodes(State, uuid_a, uuid_b, oc) IN
      /\ Live
      /\ Result(st)
      /\ History(Track(/\ track.named
                       /\ node_exists(node_map, uuid_a)
                       /\ node_exists(node_map, uuid_b),
                       FALSE, FALSE),
                 Call("connect_nodes",
                      find_root_index(nodes, node_map, uuid_a)
                        = find_root_index(nodes, node_map, uuid_b)),
                 edges \cup {{uuid_a, uuid_b}}, {}, <<>>)
      /\ bulk_failed' = NoFailure
      /\ UNCHANGED ever_inserted

ConnectNodesBulk(connections) ==
    \E oc \in Builds(set_count, MaxMerges(connections)) :
      LET st == connect_nodes_bulk(State, connections, 1, oc) IN
      /\ Live
      /\ Result(st)
      /\ History(Track(FALSE,
                       /\ track.bulk
                       /\ \A k \in DOMAIN connections :
                             /\ connections[k][1] < node_count(nodes)
                             /\ connections[k][2] < node_count(nodes),
                       FALSE),
                 NoCall, {},
                 bulk_edges \cup {{c[1], c[2]} : c \in Range(connections)},
                 <<>>)
      /\ bulk_failed' =
            Failure(st.panicked, CountDrop(set_count, st.set_count))
      /\ UNCHANGED ever_inserted

Next ==
    \/ \E uuid \in Names : AddNode(uuid)
    \/ \E uuid_list \in NameLists : AddNodesBulk(uuid_list)
    \/ \E uuid_a \in Names, uuid_b \in Names : ConnectNodes(uuid_a, uuid_b)
    \/ \E connections \in ConnectionLists : ConnectNodesBulk(connections)

Spec == Init /\ [][Next]_vars

\* The named interface used on registered names only.
NextNamed ==
    \/ \E uuid \in Names : AddNode(uuid)
    \/ \E uuid_a \in Names, uuid_b \in Names :
         /\ node_exists(node_map, uuid_a)
         /\ node_exists(node_map, uuid_b)
         /\ ConnectNodes(uuid_a, uuid_b)

SpecNamed == Init /\ [][NextNamed]_vars

\* The bulk interface as main.rs uses it: distinct names loaded into the
\* fresh store, then connections whose indexes are all in range.
NextBulk ==
    \/ \E uuid_list \in NameLists :
         /\ len(nodes) = 1
         /\ Distinct(uuid_list)
         /\ AddNodesBulk(uuid_list)
    \/ \E connections \in ConnectionLists :
         /\ \A k \in DOMAIN connections :
               /\ connections[k][1] < node_count(nodes)
               /\ connections[k][2] < node_count(nodes)
         /\ ConnectNodesBulk(connections)

SpecBulk == Init /\ [][NextBulk]_vars

\* The bulk interface with connections of any indexes, in range or not.
NextBulkAny ==
    \/ \E uuid_list \in NameLists :
         /\ len(nodes) = 1
         /\ Distinct(uuid_list)
         /\ AddNodesBulk(uuid_list)
    \/ \E connections \in ConnectionLists : ConnectNodesBulk(connections)

SpecBulkAny == Init /\ [][NextBulkAny]_vars

\* Every call handles one element: the named interface, and the bulk
\* interface called with lists of length one.
NextSingle ==
    \/ \E uuid \in Names : AddNode(uuid)
    \/ \E uuid \in Names : AddNodesBulk(<<uuid>>)
    \/ \E uuid_a \in Names, uuid_b \in Names : ConnectNodes(uuid_a, uuid_b)
    \/ \E c \in Indexes \X Indexes : ConnectNodesBulk(<<c>>)

SpecSingle == Init /\ [][NextSingle]_vars

\* Insertions only.
NextInsert ==
    \/ \E uuid \in Names : AddNode(uuid)
    \/ \E uuid_list \in NameLists : AddNodesBulk(uuid_list)

SpecInsert == Init /\ [][NextInsert]_vars

\* ------------------------------------------------------- derived notions
Registered(uuid) == node_exists(node_map, uuid)

\* Positions of the real entity records.
Real == 1..node_count(nodes)

Root(uuid) == find_root_index(nodes, node_map, uuid)

Connected(uuid_a, uuid_b) == nodes_connected(nodes, node_map, uuid_a, uuid_b)

\* The vertices reachable from the set S in the undirected graph whose edges
\* are the sets in E.
RECURSIVE Component(_, _)
Component(E, S) ==
    LET T == S \cup UNION {e \in E : e \cap S # {}}
    IN  IF T = S THEN S ELSE Component(E, T)

Components(V, E) == {Component(E, {v}) : v \in V}

\* ------------------------------------------------------------------ claims
\* C1: after add_node and connect_nodes calls on registered names only,
\* nodes_connected(a, b) is true for registered a and b exactly when a and b
\* are in the same component of the graph of the pairs passed to
\* connect_nodes (a name is in its own component).
C1_ConnectedIffSameComponent ==
    track.named =>
        \A a \in Names, b \in Names :
            Registered(a) /\ Registered(b) =>
                (Connected(a, b) <=> b \in Component(edges, {a}))

\* C1 witness: two registered names connected only through a third, next to
\* the pairs that were passed.
C1_Witness ==
    /\ track.named
    /\ last_call.op = "connect_nodes"
    /\ \E a \in Names, b \in Names :
         /\ a # b
         /\ Connected(a, b)
         /\ {a, b} \notin edges

\* C2: disjoint_set_count() equals the number of real entity records that
\* are their own parent, in every reachable state.
C2_CounterEqualsRepresentatives ==
    disjoint_set_count(set_count)
        = Cardinality({i \in Real : nodes[i].parent_index = i})

\* C3: after add_nodes_bulk of N distinct names into the fresh store and
\* connect_nodes_bulk of pairs with indexes below N, node_count() is N and
\* disjoint_set_count() is the number of components of the graph on 0..N-1
\* whose edges are the pairs.
C3_BulkCountsComponents ==
    track.bulk =>
        /\ node_count(nodes) = Cardinality(ever_inserted)
        /\ disjoint_set_count(set_count)
             = Cardinality(Components(0..(node_count(nodes) - 1), bulk_edges))

\* C3 witness: three names loaded in bulk and merged by bulk connections
\* into fewer sets, with one entity connected to no other.
C3_Witness ==
    /\ track.bulk
    /\ node_count(nodes) = 3
    /\ set_count = 2
    /\ bulk_edges # {}

\* C4: the placeholder record stays self-parented with size 0, and no real
\* entity record has the placeholder as parent.
C4_PlaceholderNeverMerged ==
    /\ nodes[0].parent_index = 0
    /\ nodes[0].size = 0
    /\ \A i \in Real : nodes[i].parent_index # 0

\* C5 as stated: for any two names, nodes_connected(a, b) is true exactly
\* when find_root_index(a) = find_root_index(b).
C5_ConnectedIffSameRoot ==
    \A a \in Names, b \in Names : Connected(a, b) <=> (Root(a) = Root(b))

\* C5 as amended: nodes_connected(a, b) is true exactly when both names are
\* registered and find_root_index(a) = find_root_index(b); the relation is
\* symmetric and transitive.
C5_ConnectedIffRegisteredSameRoot ==
    /\ \A a \in Names, b \in Names :
         Connected(a, b) <=>
             (Registered(a) /\ Registered(b) /\ Root(a) = Root(b))
    /\ \A a \in Names, b \in Names : Connected(a, b) => Connected(b, a)
    /\ \A a \in Names, b \in Names, c \in Names :
         Connected(a, b) /\ Connected(b, c) => Connected(a, c)

\* C5 witness: three different names pairwise connected, in a store whose
\* placeholder was re-parented by a connect on an unregistered name.
C5_Witness ==
    /\ nodes[0].parent_index # 0
    /\ \E a \in Names, b \in Names, c \in Names :
         /\ a # b /\ b # c /\ a # c
         /\ Connected(a, b) /\ Connected(b, c)

\* C6: from every reachable state, connect_nodes(a, b) on names that resolve
\* to the same representative (in particular connect_nodes(a, a), for any
\* name) returns the store with its records, name index and counter
\* unchanged; and connect_nodes(a, b) called a second time on registered
\* names changes nothing the first call left.
C6_ConnectIsNoOpOnSameRoot ==
    \A a \in Names, b \in Names, oc \in BOOLEAN :
        LET once == connect_nodes(State, a, b, oc) IN
        /\ (a = b \/ Root(a) = Root(b)) =>
               /\ once.nodes = nodes
               /\ once.node_map = node_map
               /\ once.set_count = set_count
        /\ (Registered(a) /\ Registered(b)) =>
               connect_nodes(once, a, b, oc) = once

\* C6 witness: a connect_nodes call has just found equal representatives and
\* returned, in a store where two different registered names are connected.
C6_Witness ==
    /\ last_call.op = "connect_nodes"
    /\ last_call.skipped
    /\ \E a \in Names, b \in Names : a # b /\ Connected(a, b)

\* C7: the name index is injective, its domain is the set of names of the
\* real entity records, its range is 1..node_count(), and the record at
\* node_index(n) has uuid n.
C7_NameIndexBijective ==
    /\ \A a \in DOMAIN node_map, b \in DOMAIN node_map :
         node_map[a] = node_map[b] => a = b
    /\ DOMAIN node_map = {nodes[i].uuid : i \in Real}
    /\ {node_map[n] : n \in DOMAIN node_map} = Real
    /\ \A n \in DOMAIN node_map : nodes[node_index(node_map, n)].uuid = n

\* C8: after inserting N pairwise distinct names into the fresh store by
\* add_node and add_nodes_bulk, and before any connect, node_count() and
\* disjoint_set_count() are N, and the i-th inserted name has node_index i
\* and is its own representative with size 1.
C8_DistinctInsertions ==
    track.distinct =>
        /\ node_count(nodes) = Len(inserted)
        /\ disjoint_set_count(set_count) = Len(inserted)
        /\ \A i \in 1..Len(inserted) :
             /\ node_index(node_map, inserted[i]) = i
             /\ Root(inserted[i]) = i
             /\ nodes[i].parent_index = i
             /\ nodes[i].size = 1

\* C8 witness: three distinct names inserted, by add_nodes_bulk and by
\* add_node (a call of either breaks the other's discipline).
C8_Witness ==
    /\ track.distinct
    /\ ~ track.named
    /\ ~ track.bulk
    /\ Len(inserted) = 3

\* C9: from every reachable state, add_node on a name that is in the name
\* index appends no record and leaves node_count(), disjoint_set_count(),
\* node_index of every name and every record's parent_index and size
\* unchanged.
C9_DuplicateAddNodeIsNoOp ==
    \A uuid \in Names, oc \in BOOLEAN :
        Registered(uuid) =>
            LET st == add_node(State, uuid, oc) IN
            /\ node_count(st.nodes) = node_count(nodes)
            /\ disjoint_set_count(st.set_count) = disjoint_set_count(set_count)
            /\ \A n \in Names :
                 node_index(st.node_map, n) = node_index(node_map, n)
            /\ \A i \in DOMAIN nodes :
                 /\ st.nodes[i].parent_index = nodes[i].parent_index
                 /\ st.nodes[i].size = nodes[i].size

\* C9 witness: add_node has just found its name indexed, in a store with
\* merged entities.
C9_Witness ==
    /\ last_call.op = "add_node"
    /\ last_call.skipped
    /\ node_count(nodes) >= 2
    /\ set_count < node_count(nodes)

\* C10: for a name never inserted node_exists is false and node_index and
\* find_root_index are 0; for an inserted name node_exists is true and
\* node_index and find_root_index are positions >= 1.
C10_ZeroExactlyForUnregistered ==
    \A uuid \in Names :
        IF uuid \in ever_inserted
        THEN /\ node_exists(node_map, uuid)
             /\ node_index(node_map, uuid) >= 1
             /\ Root(uuid) >= 1
        ELSE /\ ~ node_exists(node_map, uuid)
             /\ node_index(node_map, uuid) = 0
             /\ Root(uuid) = 0

\* C10 witness: an inserted and a never inserted name, after a connect that
\* re-parented the placeholder under a real entity that was merged later.
C10_Witness ==
    /\ \E uuid \in Names : uuid \in ever_inserted
    /\ \E uuid \in Names : uuid \notin ever_inserted
    /\ nodes[0].parent_index # 0
    /\ nodes[nodes[0].parent_index].parent_index # nodes[0].parent_index

\* The record at position i ends the parent walk: it is a representative.
Representative(i) == nodes[i].parent_index = nodes[i].index

\* C11: from every reachable state, when connect_nodes(a, b) finds two
\* distinct representatives ra and rb: if size(ra) < size(rb) only ra is
\* re-parented, to rb, and size(rb) grows by size(ra); otherwise (a tie
\* included) only rb is re-parented, to ra, and size(ra) grows by size(rb);
\* the counter drops by exactly one, and no other record changes.
C11_MergeBySize ==
    \A a \in Names, b \in Names, oc \in BOOLEAN :
        LET ra == Root(a)
            rb == Root(b)
            once == connect_nodes(State, a, b, oc)
            kept == IF nodes[ra].size < nodes[rb].size THEN rb ELSE ra
            lost == IF nodes[ra].size < nodes[rb].size THEN ra ELSE rb
        IN  (ra # rb /\ Representative(ra) /\ Representative(rb)) =>
                /\ DOMAIN once.nodes = DOMAIN nodes
                /\ once.nodes[lost].parent_index = kept
                /\ once.nodes[lost].size = nodes[lost].size
                /\ once.nodes[kept].parent_index = kept
                /\ once.nodes[kept].size = nodes[kept].size + nodes[lost].size
                /\ \A i \in DOMAIN nodes \ {ra, rb} : once.nodes[i] = nodes[i]
                /\ once.set_count = set_count - 1
                /\ ~ once.panicked

\* The real entity records whose parent chain ends at position r.
Members(r) == {i \in Real : walk(nodes, i) = r}

RealRepresentatives == {r \in Real : Representative(r)}

RECURSIVE SumSizes(_)
SumSizes(S) ==
    IF S = {} THEN 0
    ELSE LET r == CHOOSE x \in S : TRUE
         IN  nodes[r].size + SumSizes(S \ {r})

\* C12: in every reachable state the size of each representative among the
\* real entity records is the number of real entity records whose parent
\* chain ends at it, and the sizes of these representatives sum to
\* node_count().
C12_SizeCountsMembers ==
    /\ \A r \in RealRepresentatives : nodes[r].size = Cardinality(Members(r))
    /\ SumSizes(RealRepresentatives) = node_count(nodes)

\* C12 witness: a set of two or more entities next to another set, in a
\* store whose placeholder was re-parented under a real record.
C12_Witness ==
    /\ nodes[0].parent_index # 0
    /\ \E r \in RealRepresentatives, q \in RealRepresentatives :
         /\ r # q
         /\ nodes[r].size >= 2

\* The number of times the walk from position i follows parent_index.
RECURSIVE Hops(_, _)
Hops(ns, i) ==
    IF ns[i].parent_index # ns[i].index
    THEN 1 + Hops(ns, ns[i].parent_index)
    ELSE 0

\* floor(log2(s)) for s >= 1.
RECURSIVE Log2Floor(_)
Log2Floor(s) == IF s <= 1 THEN 0 ELSE 1 + Log2Floor(s \div 2)

\* C13: in every reachable state the number of parent hops from a real
\* entity record to its representative is at most floor(log2(s)), s being
\* the size of that representative.
C13_ChainLogarithmic ==
    \A i \in Real :
        Hops(nodes, i) <= Log2Floor(nodes[walk(nodes, i)].size)

\* C13 witness: a set of three entities built by merging a set of two with
\* a single entity, every chain in it as long as the bound allows.
C13_Witness ==
    \E r \in RealRepresentatives :
        /\ nodes[r].size = 3
        /\ \A i \in Members(r) \ {r} : Hops(nodes, i) = 1

\* The position reached from i by following parent_index k times.
RECURSIVE ParentAfter(_, _, _)
ParentAfter(ns, i, k) ==
    IF k = 0 THEN i ELSE ParentAfter(ns, ns[i].parent_index, k - 1)

\* C14: in every reachable state every parent_index is a position of the
\* store, and following parent_index from any record (the placeholder
\* included) reaches a self-parented record in fewer hops than there are
\* records: the parent links have no cycle but the representatives'
\* self-loops, and the walks of find_root_index and find_root_index_bulk
\* terminate.
C14_WalkTerminates ==
    /\ \A i \in DOMAIN nodes : nodes[i].parent_index \in DOMAIN nodes
    /\ \A i \in DOMAIN nodes :
         \E k \in 0..(len(nodes) - 1) :
             /\ \A j \in 0..k : ParentAfter(nodes, i, j) \in DOMAIN nodes
             /\ Representative(ParentAfter(nodes, i, k))

\* C14 witness: a walk of two hops, from the re-parented placeholder through
\* a merged real record to its representative.
C14_Witness ==
    /\ len(nodes) >= 3
    /\ ~ Representative(0)
    /\ ~ Representative(ParentAfter(nodes, 0, 1))
    /\ Representative(ParentAfter(nodes, 0, 2))

\* The number of the first pair of connections with a zero-based index that
\* is not below node_count(); 0 when every index is in range.
FirstOutOfRange(ns, connections) ==
    LET bad == {k \in DOMAIN connections :
                   \/ connections[k][1] >= node_count(ns)
                   \/ connections[k][2] >= node_count(ns)}
    IN  IF bad = {} THEN 0 ELSE CHOOSE k \in bad : \A j \in bad : k <= j

\* C15: from every reachable state, connect_nodes_bulk on a list whose k-th
\* pair is the first with an index out of range fails at that pair, and
\* leaves the records, the name index and the counter as the pairs before
\* the k-th left them: the earlier merges stay applied, the k-th and the
\* later pairs change nothing.
C15_BulkFailsAfterPrefix ==
    \A connections \in ConnectionLists :
      \A oc \in Builds(set_count, MaxMerges(connections)) :
        LET k == FirstOutOfRange(nodes, connections)
            whole == connect_nodes_bulk(State, connections, 1, oc)
            prefix == connect_nodes_bulk(State, SubSeq(connections, 1, k - 1),
                                         1, oc)
        IN  k > 0 =>
                /\ whole.panicked
                /\ whole.nodes = prefix.nodes
                /\ whole.node_map = prefix.node_map
                /\ whole.set_count = prefix.set_count

\* C15 witness: a connect_nodes_bulk call has panicked on a pair after the
\* first (the counter is not 0, so it was no underflow), and the merge it
\* applied before is in the store.
C15_Witness ==
    /\ panicked
    /\ bulk_failed.failed
    /\ bulk_failed.merged >= 1
    /\ set_count >= 1
    /\ set_count + bulk_failed.merged = node_count(nodes)

\* The names of the real entity records are pairwise distinct.
NamesDistinct ==
    \A i \in Real, j \in Real : nodes[i].uuid = nodes[j].uuid => i = j

\* The lists of connections whose zero-based indexes are all below
\* node_count().
InRangeLists ==
    SeqsUpTo((0..(node_count(nodes) - 1)) \X (0..(node_count(nodes) - 1)),
             MaxConnections)

\* connect_nodes called for each pair of connections from the k-th on, in
\* order, on the names of the records the indexes stand for; a panic ends
\* the program.
RECURSIVE ConnectEach(_, _, _, _)
ConnectEach(st, connections, k, oc) ==
    IF k > Len(connections) \/ st.panicked
    THEN st
    ELSE ConnectEach(connect_nodes(st, st.nodes[connections[k][1] + 1].uuid,
                                       st.nodes[connections[k][2] + 1].uuid,
                                   oc),
                     connections, k + 1, oc)

\* C16: from every reachable state whose names are pairwise distinct,
\* connect_nodes_bulk on a list of in-range pairs (a single pair (i, j) in
\* particular) leaves the same records, name index and counter as
\* connect_nodes called pair after pair on the names of records i and j.
C16_BulkEqualsNamed ==
    NamesDistinct =>
        \A connections \in InRangeLists :
            \A oc \in Builds(set_count, MaxMerges(connections)) :
                connect_nodes_bulk(State, connections, 1, oc)
                    = ConnectEach(State, connections, 1, oc)

\* C16 witness: three distinct names, calls of both interfaces behind, a set
\* of two entities and a single entity left to connect by either path.
C16_Witness ==
    /\ NamesDistinct
    /\ node_count(nodes) = 3
    /\ ~ track.named
    /\ ~ track.bulk
    /\ \E r \in RealRepresentatives, q \in RealRepresentatives :
         nodes[r].size = 2 /\ nodes[q].size = 1

\* The number of the last element of uuid_list that is the name n.
LastIn(uuid_list, n) ==
    CHOOSE k \in DOMAIN uuid_list :
        /\ uuid_list[k] = n
        /\ \A j \in DOMAIN uuid_list : uuid_list[j] = n => j <= k

\* C17: from every reachable state of a running program, add_nodes_bulk
\* appends one self-parented record of size 1 for every element of its
\* list, repeated or registered names included, and changes no record it
\* found: node_count() and disjoint_set_count() each grow by the length of
\* the list, and afterwards node_index of a name of the list is the position
\* of the last record appended with that name.
C17_BulkAppendsEveryElement ==
    \A uuid_list \in NameLists, oc \in BOOLEAN :
        LET st == add_nodes_bulk(State, uuid_list, 1, oc)
            first == len(nodes)
        IN  ~ panicked =>
                /\ node_count(st.nodes) = node_count(nodes) + Len(uuid_list)
                /\ disjoint_set_count(st.set_count)
                     = disjoint_set_count(set_count) + Len(uuid_list)
                /\ \A i \in DOMAIN nodes : st.nodes[i] = nodes[i]
                /\ \A k \in DOMAIN uuid_list :
                     st.nodes[first + k - 1]
                       = Node(uuid_list[k], first + k - 1, first + k - 1, 1)
                /\ \A n \in Range(uuid_list) :
                     node_index(st.node_map, n)
                       = first + LastIn(uuid_list, n) - 1
                /\ \A n \in Names \ Range(uuid_list) :
                     node_index(st.node_map, n) = node_index(node_map, n)

\* C18: once nodes_connected(a, b) is true for two names it is true after
\* every call of add_node, add_nodes_bulk, connect_nodes and
\* connect_nodes_bulk: no step takes a pair of names from connected to not
\* connected.
C18_ConnectivityNeverLost ==
    [][\A a \in Names, b \in Names : Connected(a, b) => Connected(a, b)']_vars

\* C19: in every reachable state of a running program a connect call that
\* takes the merging branch finds the counter at 1 or more: for any two
\* names that connect_nodes resolves to different positions, and for any two
\* in-range indexes that connect_nodes_bulk resolves to different positions.
C19_DecrementNeverUnderflows ==
    ~ panicked =>
        /\ \A a \in Names, b \in Names :
             Root(a) # Root(b) => disjoint_set_count(set_count) >= 1
        /\ \A i \in Real, j \in Real :
             find_root_index_bulk(nodes, i) # find_root_index_bulk(nodes, j)
                 => disjoint_set_count(set_count) >= 1

\* C20: every step keeps every real entity record at its position with its
\* uuid, every real entity record's index field is its position, and a real
\* entity record whose parent_index differs from its position keeps its
\* parent_index and size: records are only appended, and only
\* representatives are re-parented.
C20_OnlyRepresentativesChange ==
    [][/\ \A i \in Real :
            /\ i \in Real'
            /\ nodes'[i].uuid = nodes[i].uuid
            /\ nodes[i].parent_index # i =>
                   /\ nodes'[i].parent_index = nodes[i].parent_index
                   /\ nodes'[i].size = nodes[i].size
       /\ \A i \in Real' : nodes'[i].index = i]_vars

\* C20 witness: two real entity records that are not representatives; the
\* one that lost that status first has been through the merge of the other.
C20_Witness ==
    \E i \in Real, j \in Real :
        /\ i # j
        /\ nodes[i].parent_index # i
        /\ nodes[j].parent_index # j

====
